---- MODULE Spec2Model ----
(***************************************************************************)
(* Finite-automaton engine of sage/combinat/words/automataC.c.             *)
(*                                                                         *)
(* An Automaton is the record [n, na, e, i] of the C struct: n states,     *)
(* na letters, e[s].f[x] the target of state s under letter x (-1 when     *)
(* absent), e[s].final the finality field (an int: bit 1 is the finality,  *)
(* bits 2, 4 are scratch marks of the traversals), i the initial state     *)
(* (-1 when there is none).  C arrays are functions on 0..len-1.           *)
(***************************************************************************)
EXTENDS Integers, Sequences, FiniteSets, TLC

\* a1, a2, d, flags : the arguments of the call (as they are when it starts)
\* pc               : "start", then the name of the call that returned
\* r, ret           : the automaton / the value the call returned
\* post             : the caller's two automata as the call left them
\* reg              : the State-Set registry of Determinise when it returned
\* arg              : the state index the call was given (0 before any call)
VARIABLES a1, a2, d, flags, pc, r, ret, post, reg, arg

vars == <<a1, a2, d, flags, pc, r, ret, post, reg, arg>>

\* ---- bounds of the explored inputs ------------------------------------
MaxN == 3
MaxNa == 2
MaxDest == 2

\* ---- small helpers ----------------------------------------------------
Min2(x, y) == IF x < y THEN x ELSE y

Max2(x, y) == IF x > y THEN x ELSE y

\* value of the bit b (b a power of two) in the int x, as in (x & b)
HasBit(x, b) == (x \div b) % 2 = 1

\* x | b
OrBit(x, b) == IF HasBit(x, b) THEN x ELSE x + b

\* x & 1
And1(x) == x % 2

\* C truth value of an int
Truthy(x) == x # 0

\* ---- the automaton data model ------------------------------------------
EmptyAutomaton(na) == [n |-> 0, na |-> na, e |-> <<>>, i |-> -1]

Etat(n, na) == [f : [0 .. na - 1 -> -1 .. n - 1], final : {0, 1}]

AutomataOf(n, na) == [n : {n}, na : {na}, e : [0 .. n - 1 -> Etat(n, na)], i : -1 .. n - 1]

Automata == UNION {AutomataOf(n, na) : n \in 0 .. MaxN, na \in 1 .. MaxNa}

\* ---- vertex deletion ---------------------------------------------------
\* DeleteVertexOP: in place; when the last state goes the function returns
\* before it touches a->i.
DeleteVertexOP(a, e) ==
    IF a.n - 1 = 0
    THEN [a EXCEPT !.n = 0, !.e = <<>>]
    ELSE LET src(s) == IF s >= e THEN s + 1 ELSE s
             tgt(f) == IF f # e THEN (IF f >= e THEN f - 1 ELSE f) ELSE -1
         IN [n  |-> a.n - 1,
             na |-> a.na,
             e  |-> [s \in 0 .. a.n - 2 |->
                       [f     |-> [x \in 0 .. a.na - 1 |-> tgt(a.e[src(s)].f[x])],
                        final |-> a.e[src(s)].final]],
             i  |-> IF e = a.i THEN -1 ELSE (IF a.i >= e THEN a.i - 1 ELSE a.i)]

\* DeleteVertex: a copy without state e.  The copy comes from NewAutomaton
\* and every row, finality and the initial state of it is stored here.
\* The index e is not compared with the initial state.
DeleteVertex_TargetKept(a, e) ==
    LET src(s) == IF s >= e THEN s + 1 ELSE s
        tgt(f) == IF f # e THEN f ELSE -1
    IN [n  |-> a.n - 1,
        na |-> a.na,
        e  |-> [s \in 0 .. a.n - 2 |->
                  [f     |-> [x \in 0 .. a.na - 1 |-> tgt(a.e[src(s)].f[x])],
                   final |-> a.e[src(s)].final]],
        i  |-> IF a.i >= e THEN a.i - 1 ELSE a.i]

DeleteVertex(a, e) ==
    LET src(s) == IF s >= e THEN s + 1 ELSE s
        tgt(f) == IF f # e THEN (IF f >= e THEN f - 1 ELSE f) ELSE -1
    IN [n  |-> a.n - 1,
        na |-> a.na,
        e  |-> [s \in 0 .. a.n - 2 |->
                  [f     |-> [x \in 0 .. a.na - 1 |-> tgt(a.e[src(s)].f[x])],
                   final |-> a.e[src(s)].final]],
        i  |-> IF a.i >= e THEN a.i - 1 ELSE a.i]

\* ---- Hopcroft minimisation ---------------------------------------------
Iota(n) == [k \in 1 .. n |-> k - 1]

\* transitioni without the parents of the sink: an absent transition is not
\* a transition to the sink
transitioni_NoSink(a) ==
    [e \in 0 .. a.n |->
       [x \in 0 .. a.na - 1 |->
          IF e < a.n
          THEN SelectSeq(Iota(a.n), LAMBDA s : a.e[s].f[x] = e)
          ELSE <<>>]]

\* inverse of the transitions: state, letter --> list of parents, in the
\* order of the dictAdd calls; index a.n is the implicit sink
transitioni(a) ==
    [e \in 0 .. a.n |->
       [x \in 0 .. a.na - 1 |->
          IF e < a.n
          THEN SelectSeq(Iota(a.n), LAMBDA s : a.e[s].f[x] = e)
          ELSE Append(SelectSeq(Iota(a.n), LAMBDA s : a.e[s].f[x] = -1), a.n)]]

\* swap the states i and j in the permutation
swap(m, i, j) ==
    IF i = j
    THEN m
    ELSE LET k  == m.partition[i]
             p1 == [m.partition EXCEPT ![i] = m.partition[j], ![j] = k]
             q1 == [m.partitioni EXCEPT ![k] = j]
             q2 == [q1 EXCEPT ![p1[i]] = i]
         IN [m EXCEPT !.partition = p1, !.partitioni = q2]

\* body of the inner loop of split for the parent p
SplitVisit(m, p) ==
    LET cp == m.class[p]
        m1 == IF m.pt_visited_class[cp] = 0
              THEN [m EXCEPT !.visited_class = Append(@, cp),
                             !.pt_visited_class[cp] = m.class_indices[cp][0]]
              ELSE m
        ep == m1.pt_visited_class[cp]
    IN IF ep > m1.partition[p]
       THEN m1
       ELSE LET m2 == swap(m1, m1.partitioni[ep], p)
            IN [m2 EXCEPT !.pt_visited_class[cp] = @ + 1]

RECURSIVE SplitParents(_, _, _)
SplitParents(m, ps, k) ==
    IF k > Len(ps) THEN m ELSE SplitParents(SplitVisit(m, ps[k]), ps, k + 1)

\* SplitCreate with the line L[nL++] = nclass left out: the new class never
\* becomes a splitter
SplitCreate_NoWorklist(m, cp) ==
    LET l  == m.class_indices[cp][0]
        h  == m.class_indices[cp][1]
        j  == m.pt_visited_class[cp]
        nc == m.nclass
        left == h - j > j - l
        ci == IF left
              THEN [m.class_indices EXCEPT ![cp][0] = j, ![nc][0] = l, ![nc][1] = j]
              ELSE [m.class_indices EXCEPT ![cp][1] = j, ![nc][0] = j, ![nc][1] = h]
        moved == {m.partitioni[q] : q \in ci[nc][0] .. ci[nc][1] - 1}
    IN IF j < h
       THEN [m EXCEPT !.class_indices = ci,
                      !.class = [s \in DOMAIN m.class |-> IF s \in moved THEN nc ELSE m.class[s]],
                      !.nclass = nc + 1,
                      !.pt_visited_class[cp] = 0]
       ELSE [m EXCEPT !.pt_visited_class[cp] = 0]

\* body of the loop "create new classes" of split for the visited class cp
SplitCreate(m, cp) ==
    LET l  == m.class_indices[cp][0]
        h  == m.class_indices[cp][1]
        j  == m.pt_visited_class[cp]
        nc == m.nclass
        left == h - j > j - l
        ci == IF left
              THEN [m.class_indices EXCEPT ![cp][0] = j, ![nc][0] = l, ![nc][1] = j]
              ELSE [m.class_indices EXCEPT ![cp][1] = j, ![nc][0] = j, ![nc][1] = h]
        moved == {m.partitioni[q] : q \in ci[nc][0] .. ci[nc][1] - 1}
    IN IF j < h
       THEN [m EXCEPT !.class_indices = ci,
                      !.class = [s \in DOMAIN m.class |-> IF s \in moved THEN nc ELSE m.class[s]],
                      !.L = Append(@, nc),
                      !.nclass = nc + 1,
                      !.pt_visited_class[cp] = 0]
       ELSE [m EXCEPT !.pt_visited_class[cp] = 0]

RECURSIVE SplitClasses(_, _, _)
SplitClasses(m, vs, k) ==
    IF k > Len(vs) THEN m ELSE SplitClasses(SplitCreate(m, vs[k]), vs, k + 1)

RECURSIVE Concat(_, _, _)
Concat(ti, es, k) ==
    IF k > Len(es) THEN <<>> ELSE ti[es[k]] \o Concat(ti, es, k + 1)

\* split(C, a): refine the partition by the preimage of the class C under x
split(m, ti, C, x) ==
    LET l     == m.class_indices[C][0]
        h     == m.class_indices[C][1]
        etats == [k \in 1 .. h - l |-> m.partitioni[l + k - 1]]
        ps    == Concat([e \in DOMAIN ti |-> ti[e][x]], etats, 1)
        m1    == SplitParents([m EXCEPT !.visited_class = <<>>], ps, 1)
    IN SplitClasses(m1, m1.visited_class, 1)

RECURSIVE SplitLetters(_, _, _, _, _)
SplitLetters(m, ti, C, x, na) ==
    IF x >= na THEN m ELSE SplitLetters(split(m, ti, C, x), ti, C, x + 1, na)

\* the loop "while (nL)": L is used as a stack
RECURSIVE Refine(_, _, _)
Refine(m, ti, na) ==
    IF Len(m.L) = 0
    THEN m
    ELSE LET C == m.L[Len(m.L)]
         IN Refine(SplitLetters([m EXCEPT !.L = SubSeq(@, 1, Len(@) - 1)], ti, C, 0, na),
                   ti, na)

\* first loop of Minimise: the final states are swapped to the front
RECURSIVE SeparateFinals(_, _, _, _)
SeparateFinals(m, a, s, f) ==
    IF s >= a.n
    THEN [m |-> m, f |-> f]
    ELSE IF Truthy(a.e[s].final)
         THEN SeparateFinals(swap([m EXCEPT !.class[s] = 0], m.partitioni[f], s), a, s + 1, f + 1)
         ELSE SeparateFinals([m EXCEPT !.class[s] = 1], a, s + 1, f)

\* the state of the algorithm when the loop on L starts
HopcroftInit(a) ==
    LET m0 == [partition        |-> [s \in 0 .. a.n |-> s],
               partitioni       |-> [s \in 0 .. a.n |-> s],
               class            |-> [s \in 0 .. a.n |-> -1],
               class_indices    |-> [c \in 0 .. a.n |-> [b \in 0 .. 1 |-> -1]],
               nclass           |-> 0,
               L                |-> <<>>,
               pt_visited_class |-> [c \in 0 .. a.n |-> 0],
               visited_class    |-> <<>>]
        sf == SeparateFinals(m0, a, 0, 0)
        f  == sf.f
        m1 == [sf.m EXCEPT !.class[a.n] = 1]
        \* class_indices[1] lies outside the arrays when a.n = 0: the store
        \* lands beyond the one allocated Couple
        ci == [c \in 0 .. Max2(a.n, 1) |->
                 IF c = 0 THEN [b \in 0 .. 1 |-> IF b = 0 THEN 0 ELSE f]
                 ELSE IF c = 1 THEN [b \in 0 .. 1 |-> IF b = 0 THEN f ELSE a.n + 1]
                 ELSE m1.class_indices[c]]
    IN [m1 EXCEPT !.class_indices = ci,
                  !.pt_visited_class = [c \in 0 .. Max2(a.n, 1) |-> 0],
                  !.nclass = 2,
                  !.L = <<(IF f <= (a.n + 1) \div 2 THEN 0 ELSE 1)>>]

\* Quotient with r.i = a.i in place of r.i = class[a.i]
Quotient_InitialKept(a, m) ==
    [n  |-> m.nclass,
     na |-> a.na,
     e  |-> [c \in 0 .. m.nclass - 1 |->
               LET e == m.partitioni[m.class_indices[c][0]]
               IN IF e >= a.n
                  THEN [f |-> [x \in 0 .. a.na - 1 |-> -1], final |-> 0]
                  ELSE [f |-> [x \in 0 .. a.na - 1 |->
                                 IF a.e[e].f[x] # -1 THEN m.class[a.e[e].f[x]] ELSE -1],
                        final |-> a.e[e].final]],
     i  |-> a.i]

\* the quotient automaton built from the final partition
Quotient(a, m) ==
    [n  |-> m.nclass,
     na |-> a.na,
     e  |-> [c \in 0 .. m.nclass - 1 |->
               LET e == m.partitioni[m.class_indices[c][0]]
               IN IF e >= a.n
                  THEN [f |-> [x \in 0 .. a.na - 1 |-> -1], final |-> 0]
                  ELSE [f |-> [x \in 0 .. a.na - 1 |->
                                 IF a.e[e].f[x] # -1 THEN m.class[a.e[e].f[x]] ELSE -1],
                        final |-> a.e[e].final]],
     i  |-> IF a.i # -1 THEN m.class[a.i] ELSE -1]

HopcroftFinal(a) == Refine(HopcroftInit(a), transitioni(a), a.na)

\* RemoveSink without the test on the range of the class sc
RemoveSink_Always(q, m, sc) == DeleteVertexOP(q, sc)

\* the state of the sink is removed when its class sc holds the sink alone
RemoveSink(q, m, sc) ==
    IF m.class_indices[sc][1] = m.class_indices[sc][0] + 1
    THEN DeleteVertexOP(q, sc)
    ELSE q

\* Minimise once the loop on L has ended with the state m
MinimiseFrom(a, m) == RemoveSink(Quotient(a, m), m, m.class[a.n])

Minimise(a) == MinimiseFrom(a, HopcroftFinal(a))

\* ---- dictionaries --------------------------------------------------------
\* Dict: n entries e[0..n-1], -1 for "no image"
NewDict(n) == [n |-> n, e |-> [x \in 0 .. n - 1 |-> -1]]

NoDict == NewDict(0)

\* ---- equalsLangages ------------------------------------------------------
\* The recursion works on both automata through their e arrays: st.a1 and
\* st.a2 carry the marks (bit 2 of final) from call to call.
RECURSIVE equalsLangages_rec(_, _, _, _, _)
RECURSIVE EqChildren1(_, _, _, _, _, _)

\* equalsLangages_rec without its second loop
EqChildren2_Skipped(st, a2toa1, e1, e2) == TRUE

\* second loop: the edges of e2 in a2 must exist in a1
EqChildren2(st, a2toa1, e1, e2) ==
    \A x \in 0 .. st.a2.na - 1 :
        st.a2.e[e2].f[x] # -1 =>
            (a2toa1.e[x] # -1 /\ st.a1.e[e1].f[a2toa1.e[x]] # -1)

\* first loop, from letter x on: the value of the recursive call is dropped
EqChildren1(st, a1toa2, a2toa1, e1, e2, x) ==
    IF x >= st.a1.na
    THEN [res |-> EqChildren2(st, a2toa1, e1, e2), st |-> st]
    ELSE IF st.a1.e[e1].f[x] # -1
         THEN IF a1toa2.e[x] # -1
              THEN IF st.a2.e[e2].f[a1toa2.e[x]] = -1
                   THEN [res |-> FALSE, st |-> st]
                   ELSE LET sub == equalsLangages_rec(st, a1toa2, a2toa1,
                                       st.a1.e[e1].f[x], st.a2.e[e2].f[a1toa2.e[x]])
                        IN EqChildren1(sub.st, a1toa2, a2toa1, e1, e2, x + 1)
              ELSE [res |-> FALSE, st |-> st]
         ELSE EqChildren1(st, a1toa2, a2toa1, e1, e2, x + 1)

equalsLangages_rec(st, a1toa2, a2toa1, e1, e2) ==
    IF HasBit(st.a1.e[e1].final, 2) /\ HasBit(st.a2.e[e2].final, 2)
    THEN [res |-> TRUE, st |-> st]
    ELSE EqChildren1([a1 |-> [st.a1 EXCEPT !.e[e1].final = OrBit(@, 2)],
                      a2 |-> [st.a2 EXCEPT !.e[e2].final = OrBit(@, 2)]],
                     a1toa2, a2toa1, e1, e2, 0)

\* final &= 1 on every state
RestoreFinals(a) == [a EXCEPT !.e = [s \in 0 .. a.n - 1 |-> [a.e[s] EXCEPT !.final = And1(@)]]]

\* the inverse built by equalsLangages: a2toa1.e[a1toa2.e[i]] = i, i ascending
RECURSIVE InvertInto(_, _, _)
InvertInto(inv, a1toa2, x) ==
    IF x >= a1toa2.n
    THEN inv
    ELSE InvertInto([inv EXCEPT !.e[a1toa2.e[x]] = x], a1toa2, x + 1)

\* the co-walk from the two initial states, b1 and b2 being *a1 and *a2 after
\* the minimisation step
EqWalk(b1, b2, a1toa2) ==
    equalsLangages_rec([a1 |-> b1, a2 |-> b2], a1toa2,
                       InvertInto(NewDict(b2.na), a1toa2, 0), b1.i, b2.i)

\* the marks are taken off and res is returned
EqReturn(rec) ==
    [res |-> rec.res,
     a1  |-> RestoreFinals(rec.st.a1),
     a2  |-> RestoreFinals(rec.st.a2)]

\* equalsLangages(&a1, &a2, a1toa2, minimized): the value returned and the
\* two automata of the caller as the call leaves them
equalsLangages(x1, x2, a1toa2, minimized) ==
    EqReturn(EqWalk(IF minimized THEN x1 ELSE Minimise(x1),
                    IF minimized THEN x2 ELSE Minimise(x2), a1toa2))

\* ---- strongly connected components (Tarjan) ------------------------------
\* st: a (the automaton, bit 2 of final = seen), pile, m, res, compteur
\* (elements on the stack), compteur2 (components found)
RECURSIVE StronglyConnectedComponents_rec(_, _)
RECURSIVE SccChildren(_, _, _)
RECURSIVE SccPop(_, _)

\* do { compteur--; res[pile[compteur]] = compteur2; } while (pile[compteur] != etat);
SccPop(st, etat) ==
    LET c  == st.compteur - 1
        s1 == [st EXCEPT !.compteur = c, !.res[st.pile[c]] = st.compteur2]
    IN IF st.pile[c] # etat THEN SccPop(s1, etat) ELSE s1

SccChildren(st, etat, j) ==
    IF j >= st.a.na
    THEN st
    ELSE LET f == st.a.e[etat].f[j]
         IN IF f = -1
            THEN SccChildren(st, etat, j + 1)
            ELSE IF ~HasBit(st.a.e[f].final, 2)
                 THEN LET s1 == StronglyConnectedComponents_rec(st, f)
                      IN SccChildren([s1 EXCEPT !.m[etat] = Min2(s1.m[etat], s1.m[f])],
                                     etat, j + 1)
                 ELSE IF st.res[f] = -1
                      THEN SccChildren([st EXCEPT !.m[etat] = Min2(st.m[etat], st.m[f])],
                                       etat, j + 1)
                      ELSE SccChildren(st, etat, j + 1)

StronglyConnectedComponents_rec(st, etat) ==
    LET c  == st.compteur
        s1 == [st EXCEPT !.pile[c] = etat,
                         !.m[etat] = c,
                         !.a.e[etat].final = OrBit(@, 2),
                         !.compteur = c + 1]
        s2 == SccChildren(s1, etat, 0)
    IN IF s2.m[etat] = c
       THEN [SccPop(s2, etat) EXCEPT !.compteur2 = @ + 1]
       ELSE s2

\* only the component of state 0 and what it reaches is numbered
SccRoots_FirstOnly(st, s) ==
    IF st.a.n = 0 THEN st ELSE StronglyConnectedComponents_rec(st, 0)

RECURSIVE SccRoots(_, _)
SccRoots(st, s) ==
    IF s >= st.a.n
    THEN st
    ELSE SccRoots(IF st.res[s] = -1 THEN StronglyConnectedComponents_rec(st, s) ELSE st, s + 1)

\* the components numbered in the order opposite to their completion
StronglyConnectedComponents_Reversed(a) ==
    LET st == SccRoots([a         |-> a,
                        pile      |-> [s \in 0 .. a.n - 1 |-> -1],
                        m         |-> [s \in 0 .. a.n - 1 |-> -1],
                        res       |-> [s \in 0 .. a.n - 1 |-> -1],
                        compteur  |-> 0,
                        compteur2 |-> 0], 0)
    IN [res   |-> [s \in 0 .. a.n - 1 |-> st.compteur2 - 1 - st.res[s]],
        count |-> st.compteur2,
        a     |-> RestoreFinals(st.a)]

\* StronglyConnectedComponents(a, res): res, the value returned (count) and
\* the automaton as the call leaves it
StronglyConnectedComponents(a) ==
    LET st == SccRoots([a         |-> a,
                        pile      |-> [s \in 0 .. a.n - 1 |-> -1],
                        m         |-> [s \in 0 .. a.n - 1 |-> -1],
                        res       |-> [s \in 0 .. a.n - 1 |-> -1],
                        compteur  |-> 0,
                        compteur2 |-> 0], 0)
    IN [res |-> st.res, count |-> st.compteur2, a |-> RestoreFinals(st.a)]

\* ---- emonde: accessible and co-accessible states -------------------------
\* final |= 4 on every state of the component c (l gives the components)
MarkComponent(a, l, c) ==
    [a EXCEPT !.e = [s \in 0 .. a.n - 1 |->
                       IF l[s] = c THEN [a.e[s] EXCEPT !.final = OrBit(@, 4)] ELSE a.e[s]]]

RECURSIVE emonde_rec(_, _, _)
RECURSIVE EmondeChildren(_, _, _, _)

\* emonde_rec that does not hand the co-accessibility of a child to the
\* component of its parent
RECURSIVE EmondeChildren_NoCoAcc(_, _, _, _)
EmondeChildren_NoCoAcc(a, l, etat, x) ==
    IF x >= a.na
    THEN a
    ELSE LET f == a.e[etat].f[x]
         IN IF f = -1
            THEN EmondeChildren_NoCoAcc(a, l, etat, x + 1)
            ELSE LET b == IF ~HasBit(a.e[f].final, 2) THEN emonde_rec(a, l, f) ELSE a
                 IN EmondeChildren_NoCoAcc(b, l, etat, x + 1)

EmondeChildren(a, l, etat, x) ==
    IF x >= a.na
    THEN a
    ELSE LET f == a.e[etat].f[x]
         IN IF f = -1
            THEN EmondeChildren(a, l, etat, x + 1)
            ELSE LET b == IF ~HasBit(a.e[f].final, 2) THEN emonde_rec(a, l, f) ELSE a
                     c == IF HasBit(b.e[f].final, 4) /\ ~HasBit(b.e[etat].final, 4)
                          THEN MarkComponent(b, l, l[etat])
                          ELSE b
                 IN EmondeChildren(c, l, etat, x + 1)

emonde_rec(a, l, etat) ==
    EmondeChildren([a EXCEPT !.e[etat].final = OrBit(@, 2)], l, etat, 0)

\* the final states hand bit 4 to their components, s ascending
RECURSIVE PropagateFinals(_, _, _)
PropagateFinals(a, l, s) ==
    IF s >= a.n
    THEN a
    ELSE PropagateFinals(IF HasBit(a.e[s].final, 1) THEN MarkComponent(a, l, l[s]) ELSE a,
                         l, s + 1)

\* numbering of the kept states from the last one down
Renumber_Reversed(n, kept) ==
    [s \in 0 .. n - 1 |->
        IF s \in kept THEN Cardinality({t \in kept : t > s}) ELSE -1]

\* new numbers of the kept states: l[i] = cpt++ for kept i, -1 otherwise
Renumber(n, kept) ==
    [s \in 0 .. n - 1 |->
        IF s \in kept THEN Cardinality({t \in kept : t < s}) ELSE -1]

\* the automaton built from the kept states (l from Renumber); final is
\* filled from fin
SubAutomatonOf(a, l, cpt, fin) ==
    LET old(t) == CHOOSE s \in 0 .. a.n - 1 : l[s] = t
    IN [n  |-> cpt,
        na |-> a.na,
        e  |-> [t \in 0 .. cpt - 1 |->
                  [f     |-> [x \in 0 .. a.na - 1 |->
                                LET f == a.e[old(t)].f[x]
                                IN IF f = -1 THEN -1 ELSE l[f]],
                   final |-> fin[old(t)]]],
        i  |-> IF a.i # -1 THEN l[a.i] ELSE -1]

\* if (a.e[i].final) a.e[i].final = 1
NormaliseFinals(b) ==
    [b EXCEPT !.e = [s \in 0 .. b.n - 1 |->
                       [b.e[s] EXCEPT !.final = IF Truthy(@) THEN 1 ELSE @]]]

\* if (a.i != -1) emonde_rec(a, l, id, a.i)
EmondeFromInitial(b, l) == IF b.i # -1 THEN emonde_rec(b, l, b.i) ELSE b

\* the states that carry both marks
EmondeKept(b) ==
    {s \in 0 .. b.n - 1 : HasBit(b.e[s].final, 2) /\ HasBit(b.e[s].final, 4)}

\* the new automaton, b being the argument with its marks taken off
EmondeBuild(b, kept) ==
    [r |-> SubAutomatonOf(b, Renumber(b.n, kept), Cardinality(kept),
                          [s \in 0 .. b.n - 1 |-> b.e[s].final]),
     a |-> b]

\* b is the argument with its marks: count, build, final &= 1
EmondeCount(b) == EmondeBuild(RestoreFinals(b), EmondeKept(b))

\* emonde after the call of StronglyConnectedComponents
EmondeMarked(scc) ==
    EmondeCount(EmondeFromInitial(PropagateFinals(NormaliseFinals(scc.a), scc.res, 0), scc.res))

\* emonde(a): the automaton returned (r) and the argument as the call
\* leaves it (a)
emonde(a) == EmondeMarked(StronglyConnectedComponents(a))

\* ---- emonde_inf: states with an infinite run ------------------------------
\* final is the mark: 0 not seen, 1 in progress or kept, 2 seen and dropped;
\* st = [a, compteur, cycle]
RECURSIVE emonde_inf_rec(_, _)
RECURSIVE InfChildren(_, _, _, _)
InfAfter(c, etat, i, cycle) == InfChildren([c EXCEPT !.cycle = cycle \/ c.cycle], etat, i + 1, cycle \/ c.cycle)

InfChildren(st, etat, i, cycle) ==
    IF i >= st.a.na
    THEN [st EXCEPT !.cycle = cycle]
    ELSE IF st.a.e[etat].f[i] = -1
         THEN InfChildren(st, etat, i + 1, cycle)
         ELSE IF st.a.e[st.a.e[etat].f[i]].final = 1
              THEN InfChildren(st, etat, i + 1, TRUE)
              ELSE IF st.a.e[st.a.e[etat].f[i]].final = 0
                   THEN InfAfter(emonde_inf_rec(st, st.a.e[etat].f[i]), etat, i, cycle)
                   ELSE InfChildren(st, etat, i + 1, cycle)

\* if (!cycle) final = 2; else compteur++
InfDone_AlwaysKept(st, etat) == [st EXCEPT !.compteur = @ + 1]

InfDone(st, etat) ==
    IF ~st.cycle
    THEN [st EXCEPT !.a.e[etat].final = 2]
    ELSE [st EXCEPT !.compteur = @ + 1]

emonde_inf_rec(st, etat) ==
    InfDone(InfChildren([st EXCEPT !.a.e[etat].final = 1], etat, 0, FALSE), etat)

\* finaux[i] = final, final = 0 on every state
InfUnmarked(a) == [a EXCEPT !.e = [s \in 0 .. a.n - 1 |-> [a.e[s] EXCEPT !.final = 0]]]

\* if (a.i != -1) emonde_inf_rec(a, a.i), compteur being reset before
InfFromInitial(b) ==
    IF b.i # -1
    THEN emonde_inf_rec([a |-> b, compteur |-> 0, cycle |-> FALSE], b.i)
    ELSE [a |-> b, compteur |-> 0, cycle |-> FALSE]

\* the states marked 1
InfKept(b) == {s \in 0 .. b.n - 1 : HasBit(b.e[s].final, 1)}

\* the new automaton from the kept states, a the argument, its finality
\* put back from finaux
InfBuild(a, kept, compteur) ==
    [r |-> SubAutomatonOf(a, Renumber(a.n, kept), Cardinality(kept),
                          [s \in 0 .. a.n - 1 |-> a.e[s].final]),
     a |-> a,
     compteur |-> compteur]

InfMarked(a, st) == InfBuild(a, InfKept(st.a), st.compteur)

\* emonde_inf(a): the automaton returned (r), the argument as the call
\* leaves it (a) and the global counter
emonde_inf(a) == InfMarked(a, InfFromInitial(InfUnmarked(a)))

\* ---- emondeI: accessible states --------------------------------------------
RECURSIVE emondeI_rec(_, _)
RECURSIVE AccChildren(_, _, _)
AccChildren(a, etat, i) ==
    IF i >= a.na
    THEN a
    ELSE IF a.e[etat].f[i] = -1 \/ HasBit(a.e[a.e[etat].f[i]].final, 2)
         THEN AccChildren(a, etat, i + 1)
         ELSE AccChildren(emondeI_rec(a, a.e[etat].f[i]), etat, i + 1)

emondeI_rec(a, etat) == AccChildren([a EXCEPT !.e[etat].final = OrBit(@, 2)], etat, 0)

\* if (a.i != -1) emondeI_rec(a, a.i)
AccFromInitial(a) == IF a.i # -1 THEN emondeI_rec(a, a.i) ELSE a

\* the states that carry the mark
AccKept(b) == {s \in 0 .. b.n - 1 : HasBit(b.e[s].final, 2)}

\* the new automaton, b being the argument with its marks taken off.  For
\* a state i that is dropped the last loop stores r.e[-1].final, outside
\* the array of r (stray); with no state kept that array is NULL (null).
AccBuild(b, kept) ==
    [r     |-> SubAutomatonOf(b, Renumber(b.n, kept), Cardinality(kept),
                              [s \in 0 .. b.n - 1 |-> b.e[s].final]),
     a     |-> b,
     stray |-> kept # 0 .. b.n - 1,
     null  |-> kept = {} /\ b.n >= 1]

AccCount(b) == AccBuild(RestoreFinals(b), AccKept(b))

\* emondeI(a): the automaton returned (r), the argument as the call leaves
\* it (a), and whether a store fell outside the array of r
emondeI(a) == AccCount(AccFromInitial(a))

\* ---- emptyLangage -----------------------------------------------------------
\* c = [res, a]: the value returned and the automaton with its marks
RECURSIVE emptyLangage_rec(_, _)
RECURSIVE EmptyChildren(_, _, _)
EmptyAfter(c, e, i) == IF ~c.res THEN c ELSE EmptyChildren(c.a, e, i + 1)

EmptyChildren(a, e, i) ==
    IF i >= a.na
    THEN [res |-> TRUE, a |-> a]
    ELSE IF a.e[e].f[i] = -1 \/ HasBit(a.e[a.e[e].f[i]].final, 2)
         THEN EmptyChildren(a, e, i + 1)
         ELSE EmptyAfter(emptyLangage_rec(a, a.e[e].f[i]), e, i)

emptyLangage_rec_FinalMissed(a, e) ==
    EmptyChildren([a EXCEPT !.e[e].final = OrBit(@, 2)], e, 0)

emptyLangage_rec(a, e) ==
    IF Truthy(a.e[e].final)
    THEN [res |-> FALSE, a |-> a]
    ELSE EmptyChildren([a EXCEPT !.e[e].final = OrBit(@, 2)], e, 0)

\* final &= 1 on every state after the search
EmptyRestore_Skipped(c) == c

EmptyRestore(c) == [res |-> c.res, a |-> RestoreFinals(c.a)]

\* emptyLangage(a): the value returned (res) and the argument as the call
\* leaves it (a)
emptyLangage(a) ==
    IF a.i = -1
    THEN [res |-> TRUE, a |-> a]
    ELSE EmptyRestore(emptyLangage_rec(a, a.i))

\* ---- Determinise and the State-Set registry ------------------------------
\* size of the hash table
nhash == 10000019

\* hash of a list of states
RECURSIVE HashFrom(_, _, _)
HashFrom(e, k, h) ==
    IF k > Len(e) THEN h ELSE HashFrom(e, k + 1, (h * 2 + e[k]) % nhash)

hash(e) == HashFrom(e, 1, 1)

\* Etats are sequences of states; equality is position by position
equals(e1, e2) ==
    /\ Len(e1) = Len(e2)
    /\ \A k \in 1 .. Len(e1) : e1[k] = e2[k]

\* inverse of a dictionary: destination letter --> list of source letters
invertDict(dd) ==
    LET nv == IF \A x \in 0 .. dd.n - 1 : dd.e[x] < 0
              THEN 0
              ELSE 1 + (CHOOSE v \in {dd.e[x] : x \in 0 .. dd.n - 1} :
                            \A x \in 0 .. dd.n - 1 : dd.e[x] <= v)
    IN [n |-> nv,
        d |-> [v \in 0 .. nv - 1 |-> SelectSeq(Iota(dd.n), LAMBDA x : dd.e[x] = v)]]

\* append ef to f unless it is there
putEtat(f, ef) == IF \E k \in 1 .. Len(f) : f[k] = ef THEN f ELSE Append(f, ef)

\* the registry: l is the list of the State Sets (result state k is
\* l[k + 1]), lhash the hash table as the list of its entries <<bucket, id>>
\* in the order of the dictAdd calls
Bucket(lhash, h) == SelectSeq(lhash, LAMBDA en : en[1] = h)

\* add(l, e, &nf): scan of the bucket of e from its entry k on
RECURSIVE AddScan(_, _, _, _)
AddScan(reg0, e, b, k) ==
    IF k > Len(b)
    THEN [added |-> TRUE,
          nf    |-> Len(reg0.l),
          reg   |-> [reg0 EXCEPT !.lhash = Append(@, <<hash(e), Len(reg0.l)>>)]]
    ELSE LET v == b[k][2]
         IN IF v < 0
            THEN [added |-> FALSE, nf |-> v, reg |-> reg0]
            ELSE IF equals(reg0.l[v + 1], e)
                 THEN [added |-> FALSE, nf |-> v, reg |-> reg0]
                 ELSE AddScan(reg0, e, b, k + 1)

\* add that does not see the entry -1 of the empty list
add_EmptyNotBarred(reg0, e) ==
    AddScan(reg0, e, SelectSeq(Bucket(reg0.lhash, hash(e)), LAMBDA en : en[2] >= 0), 1)

add(reg0, e) == AddScan(reg0, e, Bucket(reg0.lhash, hash(e)), 1)

\* AddEtat that drops its argument final
AddEtat_NonFinal(a, final) ==
    [a EXCEPT !.n = a.n + 1,
              !.e = [s \in 0 .. a.n |->
                       IF s < a.n THEN a.e[s]
                       ELSE [f |-> [x \in 0 .. a.na - 1 |-> -1], final |-> 0]]]

\* AddEtat(a, final): one more state, without transitions
AddEtat(a, final) ==
    [a EXCEPT !.n = a.n + 1,
              !.e = [s \in 0 .. a.n |->
                       IF s < a.n THEN a.e[s]
                       ELSE [f |-> [x \in 0 .. a.na - 1 |-> -1],
                             final |-> IF final THEN 1 ELSE 0]]]

\* the targets under the first source letter of the destination letter only
RECURSIVE Successors_FirstLetter(_, _, _, _, _, _)
Successors_FirstLetter(a, c, srcs, j, k, f) ==
    IF j > Len(c)
    THEN f
    ELSE IF k > Min2(Len(srcs), 1)
         THEN Successors_FirstLetter(a, c, srcs, j + 1, 1, f)
         ELSE LET ef == a.e[c[j]].f[srcs[k]]
              IN Successors_FirstLetter(a, c, srcs, j, k + 1, IF ef # -1 THEN putEtat(f, ef) ELSE f)

\* the list f of the targets of the states of c under the source letters
\* of one destination letter
RECURSIVE Successors(_, _, _, _, _, _)
Successors(a, c, srcs, j, k, f) ==
    IF j > Len(c)
    THEN f
    ELSE IF k > Len(srcs)
         THEN Successors(a, c, srcs, j + 1, 1, f)
         ELSE LET ef == a.e[c[j]].f[srcs[k]]
              IN Successors(a, c, srcs, j, k + 1, IF ef # -1 THEN putEtat(f, ef) ELSE f)

\* st: r (the result so far), reg (the registry), calls (the states the
\* calls of Determinise_rec entered so far were to expand)
RECURSIVE Determinise_rec(_, _, _, _, _)
RECURSIVE DetLetters(_, _, _, _, _, _, _)

DetLetters(a, id, st, onlyfinals, nof, current, x) ==
    IF x >= id.n
    THEN st
    ELSE LET c     == st.reg.l[current + 1]
             f     == Successors(a, c, id.d[x], 1, 1, <<>>)
             final == \E k \in 1 .. Len(f) : Truthy(a.e[f[k]].final)
         IN IF (onlyfinals /\ ~final) \/ (nof /\ final)
            THEN DetLetters(a, id, st, onlyfinals, nof, current, x + 1)
            ELSE LET ad == add(st.reg, f)
                     s1 == IF ad.added
                           THEN Determinise_rec(a, id,
                                    [r     |-> AddEtat(st.r, nof \/ final),
                                     reg   |-> [ad.reg EXCEPT !.l = Append(@, f)],
                                     calls |-> st.calls],
                                    onlyfinals, nof)
                           ELSE st
                     s2 == IF ad.nf # -1
                           THEN [s1 EXCEPT !.r.e[current].f[x] = ad.nf]
                           ELSE s1
                 IN DetLetters(a, id, s2, onlyfinals, nof, current, x + 1)

\* every call expands the first state of the list
Determinise_rec_First(a, id, st, onlyfinals, nof) ==
    DetLetters(a, id, [st EXCEPT !.calls = Append(@, 0)], onlyfinals, nof, 0, 0)

\* the state expanded is the last one of the list; calls lists the states
\* expanded by the calls entered so far
Determinise_rec(a, id, st, onlyfinals, nof) ==
    DetLetters(a, id, [st EXCEPT !.calls = Append(@, Len(st.reg.l) - 1)],
               onlyfinals, nof, Len(st.reg.l) - 1, 0)

\* Determinise(a, d, noempty, onlyfinals, nof): the automaton returned (r),
\* the registry when it returns (reg) and the calls of Determinise_rec
Determinise(a, dd, noempty, onlyfinals, nof) ==
    LET id   == invertDict(dd)
        h0   == IF noempty THEN <<<<hash(<<>>), -1>>>> ELSE <<>>
        r0   == [n  |-> 1,
                 na |-> id.n,
                 e  |-> [s \in {0} |->
                           [f     |-> [x \in 0 .. id.n - 1 |-> -1],
                            final |-> IF nof THEN 1 ELSE a.e[a.i].final]],
                 i  |-> 0]
        reg0 == [add([l |-> <<>>, lhash |-> h0], <<a.i>>).reg EXCEPT !.l = <<<<a.i>>>>]
    IN IF a.i = -1
       THEN [r   |-> IF nof
                     THEN [n  |-> 1,
                           na |-> id.n,
                           e  |-> [s \in {0} |-> [f |-> [x \in 0 .. id.n - 1 |-> 0], final |-> 1]],
                           i  |-> 0]
                     ELSE EmptyAutomaton(id.n),
             reg |-> [l |-> <<>>, lhash |-> h0],
             calls |-> <<>>]
       ELSE Determinise_rec(a, id, [r |-> r0, reg |-> add(reg0, <<a.i>>).reg, calls |-> <<>>],
                            onlyfinals, nof)

\* ---- allocation ----------------------------------------------------------------
\* values an int that was never stored may be read as
Indeterminate == {-1, 0, 1}

\* NewAutomaton(n, na): with n = 0 the initial state is set to -1; otherwise
\* the states and their rows come from malloc and nothing is stored into
\* final, f or i, so that reading them gives any value
NewAutomaton(n, na) ==
    IF n = 0
    THEN {EmptyAutomaton(na)}
    ELSE [n  : {n},
          na : {na},
          e  : [0 .. n - 1 -> [f : [0 .. na - 1 -> Indeterminate], final : Indeterminate]],
          i  : Indeterminate]

\* ---- completion ----------------------------------------------------------------
\* false at the first absent transition
IsCompleteAutomaton(a) ==
    \A s \in 0 .. a.n - 1 : \A x \in 0 .. a.na - 1 : a.e[s].f[x] # -1

\* the first loop: every absent transition of the ne states goes to ne
CompleteRedirect(a, ne) ==
    [a EXCEPT !.e = [s \in 0 .. ne - 1 |->
                       [a.e[s] EXCEPT !.f = [x \in 0 .. a.na - 1 |->
                                               IF a.e[s].f[x] = -1 THEN ne ELSE a.e[s].f[x]]]]]

\* if (a->i == -1) a->i = ne
CompleteInitial(a, ne) == IF a.i = -1 THEN [a EXCEPT !.i = ne] ELSE a

\* the state added is left without transitions
CompleteSink_NoLoop(a, ne) == CompleteInitial(a, ne)

\* the state added loops on every letter
CompleteSink(a, ne) ==
    CompleteInitial([a EXCEPT !.e[ne].f = [x \in 0 .. a.na - 1 |-> ne]], ne)

\* add_etat: a transition was redirected or the initial state was set
CompleteAdds(a) == ~IsCompleteAutomaton(a) \/ a.i = -1

\* CompleteAutomaton(&a): the value returned (res) and the automaton as the
\* call leaves it (a)
CompleteAutomaton(a) ==
    IF ~CompleteAdds(a)
    THEN [res |-> FALSE, a |-> a]
    ELSE [res |-> TRUE,
          a   |-> CompleteSink(AddEtat(CompleteInitial(CompleteRedirect(a, a.n), a.n), FALSE), a.n)]

\* ---- Product ---------------------------------------------------------------
\* bound on n1 + na1 + n2 + na2 of the pairs of automata multiplied
MaxProdSize == 6

contract(i1, i2, n1) == i1 + n1 * i2

geti1(c, n1) == c % n1

geti2(c, n1) == c \div n1

\* init(&a): no initial state, every state non-final, every transition absent
init(a) ==
    [n  |-> a.n,
     na |-> a.na,
     e  |-> [s \in 0 .. a.n - 1 |-> [f |-> [x \in 0 .. a.na - 1 |-> -1], final |-> 0]],
     i  |-> -1]

\* Product_rec: final = true marks the pairs visited; the loops on the
\* letters i of a1 and j of a2, from (i, j) on
RECURSIVE Product_rec(_, _, _, _, _, _)
RECURSIVE ProductLetters(_, _, _, _, _, _, _, _)

\* the store *next = ... for the pair of letters (i, j), a being its letter
ProductStep(r0, i1, i2, x1, x2, dd, e1, e2, a) ==
    IF a = -1
    THEN r0
    ELSE IF e2 < 0
         THEN [r0 EXCEPT !.e[contract(i1, i2, x1.n)].f[a] = -1]
         ELSE IF ~Truthy(r0.e[contract(e1, e2, x1.n)].final)
              THEN Product_rec([r0 EXCEPT !.e[contract(i1, i2, x1.n)].f[a] = contract(e1, e2, x1.n)],
                               e1, e2, x1, x2, dd)
              ELSE [r0 EXCEPT !.e[contract(i1, i2, x1.n)].f[a] = contract(e1, e2, x1.n)]

ProductLetters(r0, i1, i2, x1, x2, dd, i, j) ==
    IF i >= x1.na
    THEN r0
    ELSE IF x1.e[i1].f[i] < 0 \/ j >= x2.na
         THEN ProductLetters(r0, i1, i2, x1, x2, dd, i + 1, 0)
         ELSE ProductLetters(ProductStep(r0, i1, i2, x1, x2, dd, x1.e[i1].f[i],
                                         x2.e[i2].f[j], dd.e[contract(i, j, x1.na)]),
                             i1, i2, x1, x2, dd, i, j + 1)

Product_rec(r0, i1, i2, x1, x2, dd) ==
    ProductLetters([r0 EXCEPT !.e[contract(i1, i2, x1.n)].final = 1], i1, i2, x1, x2, dd, 0, 0)

\* number of letters of the final alphabet
DestLetters(dd) ==
    IF \A x \in 0 .. dd.n - 1 : dd.e[x] < 0
    THEN 0
    ELSE 1 + (CHOOSE v \in {dd.e[x] : x \in 0 .. dd.n - 1} :
                  \A x \in 0 .. dd.n - 1 : dd.e[x] <= v)

\* the loop that sets the final states
ProductFinals(r0, x1, x2) ==
    [r0 EXCEPT !.e = [s \in 0 .. r0.n - 1 |->
        [r0.e[s] EXCEPT !.final =
            IF Truthy(x1.e[geti1(s, x1.n)].final) /\ Truthy(x2.e[geti2(s, x1.n)].final)
            THEN 1 ELSE 0]]]

\* the empty product automaton: NewAutomaton followed by init
ProductBlank(n, na) == init([n |-> n, na |-> na])

Product(x1, x2, dd) ==
    IF x1.i = -1 \/ x2.i = -1
    THEN ProductBlank(x1.n * x2.n, DestLetters(dd))
    ELSE ProductFinals(
             Product_rec([ProductBlank(x1.n * x2.n, DestLetters(dd))
                              EXCEPT !.i = contract(x1.i, x2.i, x1.n)],
                         x1.i, x2.i, x1, x2, dd),
             x1, x2)

\* ---- languages (reference semantics, independent of the algorithms) -----
\* -1 stands for the dead state: an absent transition leads to it, it is
\* not accepting and it never leaves itself.
Delta(a, q, x) == IF q = -1 \/ x = -1 THEN -1 ELSE a.e[q].f[x]

Acc(a, q) == q # -1 /\ Truthy(a.e[q].final)

\* pairs of states reached from (p, q) by reading corresponding letters;
\* corr is a set of pairs <<letter of a, letter of b>>, -1 for "no letter"
RECURSIVE ReachPairs(_, _, _, _, _)
ReachPairs(a, b, corr, seen, frontier) ==
    IF frontier = {}
    THEN seen
    ELSE LET next == {<<Delta(a, p[1], c[1]), Delta(b, p[2], c[2])>> :
                          p \in frontier, c \in corr} \ seen
         IN ReachPairs(a, b, corr, seen \cup next, next)

\* the languages of state p of a and state q of b agree through corr
SameLanguageFrom(a, p, b, q, corr) ==
    \A pr \in ReachPairs(a, b, corr, {<<p, q>>}, {<<p, q>>}) :
        Acc(a, pr[1]) <=> Acc(b, pr[2])

SameLanguage(a, b, corr) == SameLanguageFrom(a, a.i, b, b.i, corr)

IdCorr(na) == {<<x, x>> : x \in 0 .. na - 1}

\* ---- the calls ----------------------------------------------------------
NoFlags == [minimized |-> FALSE, noempty |-> FALSE, onlyfinals |-> FALSE, nof |-> FALSE]

NoRegistry == [l |-> <<>>, lhash |-> <<>>]

Idle == /\ pc = "start"
        /\ r = EmptyAutomaton(1)
        /\ ret = FALSE
        /\ post = <<a1, a2>>
        /\ reg = NoRegistry
        /\ arg = 0

OneAutomaton == a2 = EmptyAutomaton(1) /\ d = NoDict /\ flags = NoFlags

InitMin == a1 \in Automata /\ OneAutomaton /\ Idle

\* r = Minimise(a1).  With a1.n = 0 the stores to class_indices[1] and
\* visited_class[1] fall outside the one-element arrays: the call either
\* goes on as if the arrays were larger, or the process dies.
CallMinimise ==
    /\ pc = "start"
    /\ \/ r' = Minimise(a1) /\ pc' = "Minimise"
       \/ a1.n = 0 /\ r' = r /\ pc' = "abort"
    /\ UNCHANGED <<a1, a2, d, flags, ret, post, reg, arg>>

\* the result is minimised once more: a1 becomes the first result
CallMinimiseAgain ==
    /\ pc = "Minimise"
    /\ a1' = r
    /\ r' = Minimise(r)
    /\ pc' = "Minimise2"
    /\ post' = <<r, a2>>
    /\ UNCHANGED <<a2, d, flags, ret, reg, arg>>

NextMin == CallMinimise \/ CallMinimiseAgain

SpecMin == InitMin /\ [][NextMin]_vars

\* C1: for a deterministic automaton with an initial state, Minimise(A)
\* accepts exactly the language of A (absent transition = non-final sink).
C1_MinimiseSameLanguage ==
    (pc = "Minimise" /\ a1.i # -1) => SameLanguage(a1, r, IdCorr(a1.na))

\* a three-state automaton with an initial state was minimised to fewer
\* states, one of them final
W1_MinimiseMerged ==
    /\ pc = "Minimise"
    /\ a1.i # -1
    /\ a1.n = 3
    /\ r.n = 2
    /\ \E s \in 0 .. r.n - 1 : Acc(r, s)

\* ---- reference notions for minimality ------------------------------------
RECURSIVE ReachStates(_, _, _)
ReachStates(a, seen, frontier) ==
    IF frontier = {}
    THEN seen
    ELSE LET next == {a.e[p].f[x] : p \in frontier, x \in 0 .. a.na - 1} \ (seen \cup {-1})
         IN ReachStates(a, seen \cup next, next)

\* states reachable from the initial state
Accessible(a) == IF a.i = -1 THEN {} ELSE ReachStates(a, {a.i}, {a.i})

\* p and q of a have the same language (-1 is the dead state)
Equivalent(a, p, q) == SameLanguageFrom(a, p, a, q, IdCorr(a.na))

\* number of states of the smallest deterministic (partial) automaton of
\* the language of a: the distinct non-empty residuals of the language
MinStateCount(a) ==
    LET live == {p \in Accessible(a) : ~Equivalent(a, p, -1)}
    IN Cardinality({{q \in live : Equivalent(a, p, q)} : p \in live})

\* C2: Minimise(A) has the minimal state count and no two of its states
\* can be merged, for every deterministic A (also without final states,
\* with unreachable states, with no state).
C2_MinimiseMinimal ==
    pc = "Minimise" =>
        /\ r.n = MinStateCount(a1)
        /\ \A p, q \in 0 .. r.n - 1 : p # q => ~Equivalent(r, p, q)

\* C3: Minimise(Minimise(A)) has the language and the state count of
\* Minimise(A).
C3_MinimiseIdempotent ==
    pc = "Minimise2" => (r.n = a1.n /\ SameLanguage(a1, r, IdCorr(a1.na)))

\* ---- the automaton "contains at least one 1" ------------------------------
\* state 0 initial, non-final: 0 -> 0, 1 -> 1; state 1 final: 0 -> 1, 1 -> 1
ContainsOne ==
    [n  |-> 2,
     na |-> 2,
     e  |-> [s \in 0 .. 1 |->
               IF s = 0
               THEN [f |-> [x \in 0 .. 1 |-> x], final |-> 0]
               ELSE [f |-> [x \in 0 .. 1 |-> 1], final |-> 1]],
     i  |-> 0]

\* the same automaton with its two states exchanged: state 0 final,
\* state 1 initial
ContainsOneExchanged ==
    [n  |-> 2,
     na |-> 2,
     e  |-> [s \in 0 .. 1 |->
               IF s = 0
               THEN [f |-> [x \in 0 .. 1 |-> 0], final |-> 1]
               ELSE [f |-> [x \in 0 .. 1 |-> 1 - x], final |-> 0]],
     i  |-> 1]

\* C4 as the specification states it: Minimise returns ContainsOne unchanged
\* (same state count, transitions, finality and initial state).
C4_ReturnedUnchanged ==
    (pc = "Minimise" /\ a1 = ContainsOne) => r = a1

\* C4 as the code has it: Minimise returns ContainsOne with its two states
\* exchanged (the final state becomes state 0, the initial state state 1).
C4_ReturnedExchanged ==
    (pc = "Minimise" /\ a1 = ContainsOne) => r = ContainsOneExchanged

W4_ContainsOneMinimised ==
    /\ pc = "Minimise"
    /\ a1 = ContainsOne
    /\ r.n = 2
    /\ r.i = 1

\* ---- equalsLangages on two automata and a letter correspondence ---------
\* bound on n1 + n2 + na of the pairs of automata explored
MaxPairSize == 5

\* the one-to-one correspondences of the letters 0..na-1
Bijections(na) ==
    {[n |-> na, e |-> p] : p \in {q \in [0 .. na - 1 -> 0 .. na - 1] :
                                     \A x, y \in 0 .. na - 1 : q[x] = q[y] => x = y}}

invert(dd) == InvertInto(NewDict(dd.n), dd, 0)

\* both automata have an initial state (the caller's precondition) and the
\* dictionary has an image for every letter
InitEq ==
    /\ \E na \in 1 .. MaxNa, n1 \in 1 .. MaxN, n2 \in 1 .. MaxN :
          /\ n1 + n2 + na <= MaxPairSize
          /\ a1 \in {a \in AutomataOf(n1, na) : a.i # -1}
          /\ a2 \in {a \in AutomataOf(n2, na) : a.i # -1}
          /\ d \in Bijections(na)
    /\ flags = NoFlags
    /\ Idle

CallEqualsLangages ==
    /\ pc = "start"
    /\ \E minimized \in BOOLEAN :
          LET c == equalsLangages(a1, a2, d, minimized)
          IN /\ flags' = [flags EXCEPT !.minimized = minimized]
             /\ ret' = c.res
             /\ post' = <<c.a1, c.a2>>
    /\ pc' = "equalsLangages"
    /\ UNCHANGED <<a1, a2, d, r, reg, arg>>

NextEq == CallEqualsLangages

SpecEq == InitEq /\ [][NextEq]_vars

\* letter x of the first automaton corresponds to dd.e[x] of the second
DictCorr(dd) == {<<x, dd.e[x]>> : x \in 0 .. dd.n - 1}

\* C5: with minimized = false, equalsLangages returns true iff the two
\* automata accept the same language under the correspondence d.
C5_EqualsLangagesDecides ==
    (pc = "equalsLangages" /\ ~flags.minimized) =>
        (ret <=> SameLanguage(a1, a2, DictCorr(d)))

\* b has the state count, the transitions and the initial state of a, and
\* its finality fields are 0 or 1
SameStructure(a, b) ==
    /\ b.n = a.n
    /\ b.i = a.i
    /\ \A s \in 0 .. a.n - 1 :
          /\ b.e[s].f = a.e[s].f
          /\ b.e[s].final \in {0, 1}

\* C15: after equalsLangages, with minimized true or false, each of the
\* caller's two automata has the state count, the transitions and the
\* initial state it had before the call, and boolean finality.
C15_EqualsLangagesPreserves ==
    pc = "equalsLangages" =>
        SameStructure(a1, post[1]) /\ SameStructure(a2, post[2])

\* the same for the calls with minimized = true
EqualsLangages_MinimizedPreserves ==
    (pc = "equalsLangages" /\ flags.minimized) =>
        SameStructure(a1, post[1]) /\ SameStructure(a2, post[2])

MaxDetSize == 4

\* the dictionaries from na letters to the letters 0..MaxDest-1 (-1: none)
Dictionaries(na) == {[n |-> na, e |-> p] : p \in [0 .. na - 1 -> -1 .. MaxDest - 1]}

InitDet ==
    /\ \E na \in 1 .. MaxNa, n \in 0 .. MaxN :
          /\ n + na <= MaxDetSize
          /\ a1 \in AutomataOf(n, na)
          /\ d \in Dictionaries(na)
    /\ a2 = EmptyAutomaton(1)
    /\ flags \in [minimized : {FALSE}, noempty : BOOLEAN, onlyfinals : BOOLEAN, nof : BOOLEAN]
    /\ Idle

\* r = Determinise(a1, d, ...); ret lists the states that the calls of
\* Determinise_rec expanded, in the order of the calls
CallDeterminise ==
    /\ pc = "start"
    /\ LET c == Determinise(a1, d, flags.noempty, flags.onlyfinals, flags.nof)
       IN r' = c.r /\ reg' = c.reg /\ ret' = c.calls
    /\ pc' = "Determinise"
    /\ UNCHANGED <<a1, a2, d, flags, post, arg>>

NextDet == CallDeterminise

SpecDet == InitDet /\ [][NextDet]_vars

\* no two letters have the same image
Injective(dd) ==
    \A x, y \in 0 .. dd.n - 1 : (dd.e[x] # -1 /\ dd.e[x] = dd.e[y]) => x = y

\* letter x is read as dd.e[x]; a letter of the nb destination letters that
\* is no image is read by nothing
ImageCorr(dd, nb) ==
    {<<x, dd.e[x]>> : x \in {y \in 0 .. dd.n - 1 : dd.e[y] # -1}}
    \cup {<<-1, b>> : b \in {c \in 0 .. nb - 1 : \A x \in 0 .. dd.n - 1 : dd.e[x] # c}}

\* C7: for A with an initial state and d invertible, Determinise(A, d) with
\* noempty, onlyfinals and nof false accepts exactly the image of the
\* language of A under d.
C7_DeterminiseImageLanguage ==
    (pc = "Determinise" /\ flags = NoFlags /\ a1.i # -1 /\ Injective(d)) =>
        SameLanguage(a1, r, ImageCorr(d, r.na))

\* two letters exchanged by d, a result of several states, one final
W7_DeterminisedImage ==
    /\ pc = "Determinise"
    /\ flags = NoFlags
    /\ a1.i # -1
    /\ d.n = 2
    /\ d.e[0] = 1
    /\ d.e[1] = 0
    /\ r.n >= 2
    /\ a1.e[a1.i].f[0] # a1.e[a1.i].f[1]
    /\ \E s \in 0 .. r.n - 1 : Acc(r, s)

SetOf(e) == {e[k] : k \in 1 .. Len(e)}

\* C8: the registry is one-to-one between result states and State Sets
\* under set equality: no two result states have the same set of source
\* states.
C8_RegistrySetEquality ==
    pc = "Determinise" =>
        \A j, k \in 1 .. Len(reg.l) : SetOf(reg.l[j]) = SetOf(reg.l[k]) => j = k

\* ---- emonde ----------------------------------------------------------------
InitEmonde == a1 \in Automata /\ OneAutomaton /\ Idle

\* r = emonde(a1).  With a1.n >= 1 dictAdd hands realloc the pointer that
\* NewDict(0) left unset: the call either goes on as if it were NULL, or
\* the process dies.
CallEmonde ==
    /\ pc = "start"
    /\ \/ LET c == emonde(a1)
          IN r' = c.r /\ post' = <<c.a, a2>> /\ pc' = "emonde"
       \/ a1.n >= 1 /\ pc' = "abort" /\ UNCHANGED <<r, post>>
    /\ UNCHANGED <<a1, a2, d, flags, ret, reg, arg>>

\* the result is pruned once more: a1 becomes the first result
CallEmondeAgain ==
    /\ pc = "emonde"
    /\ \/ LET c == emonde(r)
          IN a1' = r /\ r' = c.r /\ post' = <<c.a, a2>> /\ pc' = "emonde2"
       \/ r.n >= 1 /\ pc' = "abort" /\ UNCHANGED <<a1, r, post>>
    /\ UNCHANGED <<a2, d, flags, ret, reg, arg>>

NextEmonde == CallEmonde \/ CallEmondeAgain

SpecEmonde == InitEmonde /\ [][NextEmonde]_vars

\* states from which a final state is reached
CoAccessible(a) ==
    {p \in 0 .. a.n - 1 : \E q \in ReachStates(a, {p}, {p}) : Truthy(a.e[q].final)}

Useful(a) == Accessible(a) \cap CoAccessible(a)

\* number of s among the states of K, in increasing order
Rank(K, s) == Cardinality({t \in K : t < s})

\* C9: emonde(A) keeps a state iff it is reachable from the initial state
\* and reaches a final state; the kept states are renumbered in their
\* order, and a transition is kept exactly when its two ends are kept.
C9_EmondeKeepsUseful ==
    pc = "emonde" =>
        LET K == Useful(a1)
        IN /\ r.n = Cardinality(K)
           /\ r.na = a1.na
           /\ \A s \in K :
                 /\ r.e[Rank(K, s)].final = a1.e[s].final
                 /\ \A x \in 0 .. a1.na - 1 :
                       r.e[Rank(K, s)].f[x] =
                           IF a1.e[s].f[x] \in K THEN Rank(K, a1.e[s].f[x]) ELSE -1
           /\ r.i = IF a1.i \in K THEN Rank(K, a1.i) ELSE -1

\* a state between two kept states was dropped, and so was a transition
\* to a dropped state
W9_EmondeDropped ==
    /\ pc = "emonde"
    /\ a1.n = 3
    /\ r.n = 2
    /\ Useful(a1) = {0, 2}
    /\ \E x \in 0 .. a1.na - 1 : a1.e[0].f[x] = 1

\* C10: emonde(emonde(A)) is identical to emonde(A): same state count,
\* transitions, finality and initial state.
C10_EmondeFixedPoint ==
    pc = "emonde2" => r = a1

\* the second call returned, on a two-state result of the first call whose
\* initial state is state 1
W10_EmondeTwice ==
    /\ pc = "emonde2"
    /\ a1.n = 2
    /\ r.n = 2
    /\ a1.i = 1
    /\ post[1].n = 2

\* ---- Product ---------------------------------------------------------------
\* the dictionaries over the packed letter pairs of na1 and na2 letters
PairDictionaries(na1, na2) == Dictionaries(na1 * na2)

InitProd ==
    /\ \E n1 \in 1 .. MaxN, na1 \in 1 .. MaxNa, n2 \in 1 .. MaxN, na2 \in 1 .. MaxNa :
          /\ n1 + na1 + n2 + na2 <= MaxProdSize
          /\ a1 \in AutomataOf(n1, na1)
          /\ a2 \in AutomataOf(n2, na2)
          /\ d \in PairDictionaries(na1, na2)
    /\ flags = NoFlags
    /\ Idle

CallProduct ==
    /\ pc = "start"
    /\ r' = Product(a1, a2, d)
    /\ pc' = "Product"
    /\ UNCHANGED <<a1, a2, d, flags, ret, post, reg, arg>>

NextProd == CallProduct

SpecProd == InitProd /\ [][NextProd]_vars

\* the letter pairs <<i, j>> that dd maps to the destination letter b
PairsTo(x1, x2, dd, b) ==
    {ij \in (0 .. x1.na - 1) \X (0 .. x2.na - 1) : dd.e[ij[1] + ij[2] * x1.na] = b}

\* the pairs of states reached from the pairs of S by a pair of letters
\* mapped to b
PairStep(x1, x2, dd, S, b) ==
    {q \in {<<x1.e[p[1]].f[ij[1]], x2.e[p[2]].f[ij[2]]>> :
                p \in S, ij \in PairsTo(x1, x2, dd, b)} : q[1] # -1 /\ q[2] # -1}

\* <<S, t>>: after some destination word, S is the set of pairs of states
\* reached by the pairs of words mapped to it and t the state of rr reached
RECURSIVE ImageReach(_, _, _, _, _, _)
ImageReach(x1, x2, dd, rr, seen, frontier) ==
    IF frontier = {}
    THEN seen
    ELSE LET next == {<<PairStep(x1, x2, dd, c[1], b), Delta(rr, c[2], b)>> :
                          c \in frontier, b \in 0 .. rr.na - 1} \ seen
         IN ImageReach(x1, x2, dd, rr, seen \cup next, next)

\* rr accepts exactly the images under dd of the pairs of words of equal
\* length accepted by x1 and x2
PairImageLanguage(x1, x2, dd, rr) ==
    \A c \in ImageReach(x1, x2, dd, rr, {<<{<<x1.i, x2.i>>}, rr.i>>}, {<<{<<x1.i, x2.i>>}, rr.i>>}) :
        (\E p \in c[1] : Acc(x1, p[1]) /\ Acc(x2, p[2])) <=> Acc(rr, c[2])

\* C11: for A1, A2 with initial states and every dictionary d over the
\* packed letter pairs, the language of Product(A1, A2, d) is exactly the
\* set of destination words obtained from a pair of words of equal length,
\* one accepted by A1 and one by A2, mapped pair by pair through d.
C11_ProductLanguage ==
    (pc = "Product" /\ a1.i # -1 /\ a2.i # -1) =>
        PairImageLanguage(a1, a2, d, r)

\* the same for the dictionaries that map no two letter pairs to the same
\* destination letter
ProductLanguage_Injective ==
    (pc = "Product" /\ a1.i # -1 /\ a2.i # -1 /\ Injective(d)) =>
        PairImageLanguage(a1, a2, d, r)

\* ---- vertex deletion ------------------------------------------------------
\* bound on n + na of the automata a state is deleted from
MaxDelSize == 4

\* the indices the calls are given: those of the states and two on each side
Indices(a) == -2 .. a.n + 1

InitDel ==
    /\ a1 \in Automata
    /\ a1.n + a1.na <= MaxDelSize
    /\ OneAutomaton
    /\ Idle

\* DeleteVertexOP(&a1, e): the caller's automaton is changed in place.  An
\* index outside 0..n-1 is reported on the standard output and the deletion
\* goes on.
CallDeleteVertexOP ==
    /\ pc = "start"
    /\ \E e \in Indices(a1) :
          /\ arg' = e
          /\ post' = <<DeleteVertexOP(a1, e), a2>>
    /\ pc' = "DeleteVertexOP"
    /\ UNCHANGED <<a1, a2, d, flags, r, ret, reg>>

\* r = DeleteVertex(a1, e).  With a1.n = 0 NewAutomaton is asked for -1
\* states, malloc fails on the size and the process exits.
CallDeleteVertex ==
    /\ pc = "start"
    /\ \E e \in Indices(a1) :
          /\ arg' = e
          /\ \/ a1.n >= 1 /\ r' = DeleteVertex(a1, e) /\ pc' = "DeleteVertex"
             \/ a1.n = 0 /\ r' = r /\ pc' = "exit"
    /\ UNCHANGED <<a1, a2, d, flags, ret, post, reg>>

NextDel == CallDeleteVertexOP \/ CallDeleteVertex

SpecDel == InitDel /\ [][NextDel]_vars

\* b is a without state e: state s of b has the row and the finality of the
\* old state s (s < e) or s + 1 (s >= e), with the targets re-indexed
Deleted(a, e, b) ==
    /\ b.n = a.n - 1
    /\ b.na = a.na
    /\ DOMAIN b.e = 0 .. a.n - 2
    /\ \A s \in 0 .. a.n - 2 :
          LET old == a.e[IF s < e THEN s ELSE s + 1]
          IN /\ b.e[s].final = old.final
             /\ DOMAIN b.e[s].f = 0 .. a.na - 1
             /\ \A x \in 0 .. a.na - 1 :
                   b.e[s].f[x] = IF old.f[x] > e THEN old.f[x] - 1
                                 ELSE IF old.f[x] = e THEN -1
                                 ELSE old.f[x]

\* C12: for an n-state automaton and e in 0..n-1, DeleteVertexOP and
\* DeleteVertex yield an (n-1)-state automaton whose state s carries the row
\* and finality of the old state s (s < e) or s + 1 (s >= e); a target is
\* the old target minus one if that was greater than e, the old target if
\* it was smaller, and absent if it was e or absent.
C12_DeleteVertexRows ==
    /\ (pc = "DeleteVertexOP" /\ arg \in 0 .. a1.n - 1) => Deleted(a1, arg, post[1])
    /\ (pc = "DeleteVertex" /\ arg \in 0 .. a1.n - 1) => Deleted(a1, arg, r)

\* the middle state of three is deleted; there were transitions to it and
\* to the state after it
W12_DeletedMiddle ==
    /\ pc = "DeleteVertex"
    /\ a1.n = 3
    /\ arg = 1
    /\ a1.e[0].f[0] = 1
    /\ a1.e[2].f[0] = 2
    /\ r.e[1].f[0] = 1
    /\ r.e[0].f[0] = -1

\* the initial state after state e went: none if it was e, the same state
\* under its new index otherwise
InitialAfter(a, e) == IF a.i = e THEN -1 ELSE IF a.i > e THEN a.i - 1 ELSE a.i

\* C13: for DeleteVertexOP and DeleteVertex on an automaton of n >= 1
\* states, deleting the initial state yields an automaton without initial
\* state; deleting another state keeps the initial state, re-indexed.
C13_DeleteVertexInitial ==
    /\ (pc = "DeleteVertexOP" /\ arg \in 0 .. a1.n - 1) => post[1].i = InitialAfter(a1, arg)
    /\ (pc = "DeleteVertex" /\ arg \in 0 .. a1.n - 1) => r.i = InitialAfter(a1, arg)

\* C20: a deletion with e < 0 or e >= n is not carried out: the caller's
\* automaton keeps its state count, transitions, finality and initial
\* state.
C20_DeleteVertexOutOfRange ==
    (pc \in {"DeleteVertexOP", "DeleteVertex"} /\ arg \notin 0 .. a1.n - 1) =>
        post[1] = a1

\* ---- the traversals that mark states in the finality field ------------------
InitMark == a1 \in Automata /\ OneAutomaton /\ Idle

\* r = emondeI(a1).  A state that is dropped makes the last loop store
\* r.e[-1].final: with no state kept the array of r is NULL and the process
\* dies; otherwise the store lands in front of the array and the call
\* either goes on as if nothing was hit, or the process dies.
CallEmondeI ==
    /\ pc = "start"
    /\ \/ LET c == emondeI(a1)
          IN ~c.null /\ r' = c.r /\ post' = <<c.a, a2>> /\ pc' = "emondeI"
       \/ emondeI(a1).stray /\ pc' = "abort" /\ UNCHANGED <<r, post>>
    /\ UNCHANGED <<a1, a2, d, flags, ret, reg, arg>>

\* r = emonde_inf(a1); ret is the global counter of the states kept
CallEmondeInf ==
    /\ pc = "start"
    /\ LET c == emonde_inf(a1)
       IN r' = c.r /\ post' = <<c.a, a2>> /\ ret' = c.compteur
    /\ pc' = "emonde_inf"
    /\ UNCHANGED <<a1, a2, d, flags, reg, arg>>

\* ret = <<StronglyConnectedComponents(a1, res), res>>
CallStronglyConnectedComponents ==
    /\ pc = "start"
    /\ LET c == StronglyConnectedComponents(a1)
       IN ret' = <<c.count, c.res>> /\ post' = <<c.a, a2>>
    /\ pc' = "StronglyConnectedComponents"
    /\ UNCHANGED <<a1, a2, d, flags, r, reg, arg>>

\* ret = emptyLangage(a1)
CallEmptyLangage ==
    /\ pc = "start"
    /\ LET c == emptyLangage(a1)
       IN ret' = c.res /\ post' = <<c.a, a2>>
    /\ pc' = "emptyLangage"
    /\ UNCHANGED <<a1, a2, d, flags, r, reg, arg>>

NextMark ==
    \/ CallEmonde
    \/ CallEmondeI
    \/ CallEmondeInf
    \/ CallStronglyConnectedComponents
    \/ CallEmptyLangage

SpecMark == InitMark /\ [][NextMark]_vars

\* C14: emonde, emondeI, emonde_inf, StronglyConnectedComponents and
\* emptyLangage return with their argument as it was at the call: same
\* state count, transitions and initial state, and the finality of every
\* state back at its boolean value without any mark, on every path, the
\* early exit of the emptiness search included.
C14_ArgumentRestored ==
    pc \in {"emonde", "emondeI", "emonde_inf", "StronglyConnectedComponents", "emptyLangage"} =>
        /\ post[1] = a1
        /\ \A s \in 0 .. post[1].n - 1 : post[1].e[s].final \in {0, 1}

\* the emptiness search left early: the initial state, not final, was
\* marked, then a final state was met
W14_EarlyExit ==
    /\ pc = "emptyLangage"
    /\ ret = FALSE
    /\ a1.n = 3
    /\ a1.i = 0
    /\ a1.e[0].final = 0
    /\ a1.e[0].f[0] = 1
    /\ a1.e[1].final = 0
    /\ a1.e[1].f[0] = 2
    /\ a1.e[2].final = 1

\* a state on a cycle
OnCycle(a, s) ==
    \E x \in 0 .. a.na - 1 :
        a.e[s].f[x] # -1 /\ s \in ReachStates(a, {a.e[s].f[x]}, {a.e[s].f[x]})

\* the states an infinite run starts from: those that reach a cycle
InfiniteRun(a) ==
    {p \in 0 .. a.n - 1 : \E q \in ReachStates(a, {p}, {p}) : OnCycle(a, q)}

\* r is a restricted to the states of K, in their order
Restriction(a, K, b) ==
    /\ b.n = Cardinality(K)
    /\ b.na = a.na
    /\ \A s \in K :
          /\ b.e[Rank(K, s)].final = a.e[s].final
          /\ \A x \in 0 .. a.na - 1 :
                b.e[Rank(K, s)].f[x] =
                    IF a.e[s].f[x] \in K THEN Rank(K, a.e[s].f[x]) ELSE -1

\* C16: emonde_inf(A) keeps a state iff an infinite run starts there, that
\* is iff the state lies on a cycle or reaches one; every other state is
\* dropped, and the kept states keep their finality and their order.
C16_EmondeInfKeepsInfinite ==
    pc = "emonde_inf" => Restriction(a1, InfiniteRun(a1), r)

\* the same for the states that are moreover reachable from the initial
\* state
EmondeInf_AccessibleInfinite ==
    pc = "emonde_inf" =>
        /\ Restriction(a1, InfiniteRun(a1) \cap Accessible(a1), r)
        /\ r.i = IF a1.i \in InfiniteRun(a1) THEN Rank(InfiniteRun(a1) \cap Accessible(a1), a1.i) ELSE -1
        /\ ret = r.n

\* C17: emptyLangage(A) is true iff no final state is reachable from the
\* initial state, that state included; it is true when A has no initial
\* state and false on the two-state automaton of the words with a 1.
C17_EmptyLangageDecides ==
    pc = "emptyLangage" =>
        /\ ret <=> (\A q \in Accessible(a1) : ~Acc(a1, q))
        /\ a1.i = -1 => ret
        /\ a1 = ContainsOne => ~ret

\* the automaton of the words with a 1 was searched
W17_ContainsOneNotEmpty ==
    /\ pc = "emptyLangage"
    /\ a1 = ContainsOne
    /\ ret = FALSE

\* ---- completion ----------------------------------------------------------------
InitComplete == a1 \in Automata /\ OneAutomaton /\ Idle

\* ret = IsCompleteAutomaton of the caller's automaton, before or after it
\* was completed
CallIsCompleteAutomaton ==
    /\ pc \in {"start", "CompleteAutomaton"}
    /\ ret' = IsCompleteAutomaton(post[1])
    /\ pc' = IF pc = "start" THEN "IsCompleteAutomaton" ELSE "IsCompleteAutomaton2"
    /\ UNCHANGED <<a1, a2, d, flags, r, post, reg, arg>>

\* ret = CompleteAutomaton(&a1): the caller's automaton is changed in place
CallCompleteAutomaton ==
    /\ pc = "start"
    /\ LET c == CompleteAutomaton(a1)
       IN ret' = c.res /\ post' = <<c.a, a2>>
    /\ pc' = "CompleteAutomaton"
    /\ UNCHANGED <<a1, a2, d, flags, r, reg, arg>>

\* the automaton is completed once more: a1 becomes the first result
CallCompleteAutomatonAgain ==
    /\ pc = "CompleteAutomaton"
    /\ a1' = post[1]
    /\ LET c == CompleteAutomaton(post[1])
       IN ret' = c.res /\ post' = <<c.a, a2>>
    /\ pc' = "CompleteAutomaton2"
    /\ UNCHANGED <<a2, d, flags, r, reg, arg>>

NextComplete ==
    \/ CallIsCompleteAutomaton
    \/ CallCompleteAutomaton
    \/ CallCompleteAutomatonAgain

SpecComplete == InitComplete /\ [][NextComplete]_vars

\* a transition of a is absent or a has no initial state
Missing(a) ==
    \/ a.i = -1
    \/ \E s \in 0 .. a.n - 1 : \E x \in 0 .. a.na - 1 : a.e[s].f[x] = -1

\* b is a with one more state, not final and looping on every letter, that
\* takes every absent transition of a and is initial if a had no initial
\* state
Completed(a, b) ==
    /\ b.n = a.n + 1
    /\ b.na = a.na
    /\ DOMAIN b.e = 0 .. a.n
    /\ b.e[a.n].final = 0
    /\ \A x \in 0 .. a.na - 1 : b.e[a.n].f[x] = a.n
    /\ \A s \in 0 .. a.n - 1 :
          /\ b.e[s].final = a.e[s].final
          /\ \A x \in 0 .. a.na - 1 :
                b.e[s].f[x] = IF a.e[s].f[x] = -1 THEN a.n ELSE a.e[s].f[x]
    /\ b.i = IF a.i = -1 THEN a.n ELSE a.i

\* C18: CompleteAutomaton adds exactly one sink state (not final, looping
\* on every letter) iff a transition is absent or the initial state is
\* missing, sends every absent transition to it, makes it initial when
\* there was no initial state, and returns true exactly when a state was
\* added; afterwards IsCompleteAutomaton is true, and a second call
\* returns false and changes nothing.
C18_CompleteAddsOneSink ==
    /\ pc = "CompleteAutomaton" =>
          /\ ret <=> Missing(a1)
          /\ IF Missing(a1) THEN Completed(a1, post[1]) ELSE post[1] = a1
    /\ pc = "IsCompleteAutomaton2" => ret
    /\ pc = "CompleteAutomaton2" => ~ret /\ post[1] = a1

\* two states without initial state and with an absent transition were
\* completed
W18_SinkAdded ==
    /\ pc = "CompleteAutomaton"
    /\ ret
    /\ a1.n = 2
    /\ a1.na = 2
    /\ a1.i = -1
    /\ a1.e[0].f[0] = -1
    /\ a1.e[0].f[1] = 1
    /\ post[1].n = 3
    /\ post[1].i = 2

\* ---- allocation ----------------------------------------------------------------
InitNew == a1 = EmptyAutomaton(1) /\ OneAutomaton /\ Idle

\* r = NewAutomaton(n, na); arg is n
CallNewAutomaton ==
    /\ pc = "start"
    /\ \E n \in 0 .. MaxN, na \in 1 .. MaxNa :
          /\ arg' = n
          /\ r' \in NewAutomaton(n, na)
    /\ pc' = "NewAutomaton"
    /\ UNCHANGED <<a1, a2, d, flags, ret, post, reg>>

\* init(&r) on the automaton just allocated
CallInit ==
    /\ pc = "NewAutomaton"
    /\ r' = init(r)
    /\ pc' = "init"
    /\ UNCHANGED <<a1, a2, d, flags, ret, post, reg, arg>>

NextNew == CallNewAutomaton \/ CallInit

SpecNew == InitNew /\ [][NextNew]_vars

\* no initial state, no final state, no transition
Blank(a) ==
    /\ a.i = -1
    /\ \A s \in 0 .. a.n - 1 :
          /\ a.e[s].final = 0
          /\ \A x \in 0 .. a.na - 1 : a.e[s].f[x] = -1

\* C19: for every n >= 0 the automaton NewAutomaton returns has all its
\* transitions absent, all its states non-final and no initial state.
C19_NewAutomatonBlank ==
    pc = "NewAutomaton" => Blank(r)

\* the same once init was called on the automaton
NewAutomaton_InitBlank ==
    pc = "init" => Blank(r) /\ r.n = arg

\* ---- emondeI ------------------------------------------------------------------
\* b is the restriction of a to its accessible states, with the initial
\* state of a under its new index
AccessiblePart(a, b) ==
    /\ Restriction(a, Accessible(a), b)
    /\ b.i = IF a.i = -1 THEN -1 ELSE Rank(Accessible(a), a.i)

\* C21: for every automaton A, emondeI(A) keeps exactly the states
\* reachable from the initial state, in their order, with their finality
\* and every transition between kept states; the initial state of the
\* result is the initial state of A under its new index, and none only
\* when A had none.
C21_EmondeIKeepsAccessible ==
    [][CallEmondeI => (pc' = "emondeI" /\ AccessiblePart(a1, r'))]_vars

\* the same for the calls that return
EmondeI_ReturnedAccessible ==
    pc = "emondeI" => AccessiblePart(a1, r)

\* C30: emondeI never accesses the result at an index outside 0..cpt-1:
\* for every input, with unreachable states or without initial state, each
\* finality value stored into the result goes to the slot of a kept state.
C30_EmondeIStoresInBounds ==
    [][CallEmondeI => ~emondeI(a1).stray]_vars

\* ---- StronglyConnectedComponents --------------------------------------------------
\* each of p and q is reachable from the other
MutuallyReachable(a, p, q) ==
    q \in ReachStates(a, {p}, {p}) /\ p \in ReachStates(a, {q}, {q})

\* C23: StronglyConnectedComponents gives every state, reachable or not, a
\* component id in 0..count-1, count being the value returned; every id of
\* that range is used, and two states have the same id iff each is
\* reachable from the other.
C23_ComponentsAreClasses ==
    pc = "StronglyConnectedComponents" =>
        /\ \A s \in 0 .. a1.n - 1 : ret[2][s] \in 0 .. ret[1] - 1
        /\ \A c \in 0 .. ret[1] - 1 : \E s \in 0 .. a1.n - 1 : ret[2][s] = c
        /\ \A p, q \in 0 .. a1.n - 1 :
              ret[2][p] = ret[2][q] <=> MutuallyReachable(a1, p, q)

\* three states, none reachable from the initial state 2: 0 and 1 on a
\* common cycle, two components
W23_UnreachableCycle ==
    /\ pc = "StronglyConnectedComponents"
    /\ a1.n = 3
    /\ a1.i = 2
    /\ a1.e[2].f = [x \in 0 .. a1.na - 1 |-> -1]
    /\ a1.e[0].f[0] = 1
    /\ a1.e[1].f[0] = 0
    /\ ret[1] = 2
    /\ ret[2][0] = ret[2][1]

\* C24: the components are numbered in reverse topological order: when a
\* transition goes from a state of a component to a state of another
\* component, the id of the second is smaller than the id of the first.
C24_ReverseTopologicalIds ==
    pc = "StronglyConnectedComponents" =>
        \A s \in 0 .. a1.n - 1 : \A x \in 0 .. a1.na - 1 :
            (a1.e[s].f[x] # -1 /\ ret[2][a1.e[s].f[x]] # ret[2][s]) =>
                ret[2][a1.e[s].f[x]] < ret[2][s]

\* a chain 1 --> 2 --> 0 of three components
W24_Chain ==
    /\ pc = "StronglyConnectedComponents"
    /\ a1.n = 3
    /\ a1.e[1].f[0] = 2
    /\ a1.e[2].f[0] = 0
    /\ ret[1] = 3
    /\ ret[2][0] = 0
    /\ ret[2][2] = 1
    /\ ret[2][1] = 2

\* ---- Determinise: the transitions of the result -----------------------------------
\* the source states reached from the states of S by the letters that dd
\* maps to b
DetTarget(a, dd, S, b) ==
    {a.e[s].f[x] : s \in S, x \in {y \in 0 .. dd.n - 1 : dd.e[y] = b}} \ {-1}

\* C22: in Determinise with all flags false and any dictionary d, injective
\* or not, for every result state with State Set S and every destination
\* letter b the b-transition leads to the result state whose State Set is,
\* as a set, { delta(s, x) : s in S, d[x] = b, delta(s, x) defined }; a
\* result state is final exactly when its State Set has a final source
\* state.
C22_DeterminiseTransitions ==
    (pc = "Determinise" /\ flags = NoFlags) =>
        \A k \in 1 .. Len(reg.l) :
            /\ Truthy(r.e[k - 1].final) <=> \E s \in SetOf(reg.l[k]) : Truthy(a1.e[s].final)
            /\ \A b \in 0 .. r.na - 1 :
                  /\ r.e[k - 1].f[b] \in 0 .. Len(reg.l) - 1
                  /\ SetOf(reg.l[r.e[k - 1].f[b] + 1]) = DetTarget(a1, d, SetOf(reg.l[k]), b)

\* two letters with the same image lead from the initial state to two
\* states, and the result goes to the state of that pair
W22_UnionOfTwoLetters ==
    /\ pc = "Determinise"
    /\ flags = NoFlags
    /\ a1.n = 2
    /\ a1.i = 0
    /\ d.n = 2
    /\ d.e[0] = 0
    /\ d.e[1] = 0
    /\ a1.e[0].f[0] = 1
    /\ a1.e[0].f[1] = 0
    /\ reg.l[r.e[0].f[0] + 1] = <<1, 0>>

\* C28 as claimed: with noempty set the empty State Set is never a state of
\* the result, and a transition whose union of successors is empty is left
\* absent; with noempty clear the empty State Set is a non-final state of
\* the result.
C28_EmptySetNonFinal ==
    pc = "Determinise" =>
        \A k \in 1 .. Len(reg.l) :
            IF flags.noempty
            THEN /\ reg.l[k] # <<>>
                 /\ \A b \in 0 .. r.na - 1 :
                       DetTarget(a1, d, SetOf(reg.l[k]), b) = {} => r.e[k - 1].f[b] = -1
            ELSE reg.l[k] = <<>> => (k - 1 < r.n /\ r.e[k - 1].final = 0)

\* C28: with noempty set the empty State Set is never a state of the
\* result, and a transition whose union of successors is empty is left
\* absent; with noempty clear the empty State Set is a state of the result,
\* non-final unless nof marks every state final.
C28_EmptySetSuppressed ==
    pc = "Determinise" =>
        \A k \in 1 .. Len(reg.l) :
            IF flags.noempty
            THEN /\ reg.l[k] # <<>>
                 /\ \A b \in 0 .. r.na - 1 :
                       DetTarget(a1, d, SetOf(reg.l[k]), b) = {} => r.e[k - 1].f[b] = -1
            ELSE reg.l[k] = <<>> =>
                     (k - 1 < r.n /\ r.e[k - 1].final = IF flags.nof THEN 1 ELSE 0)

\* noempty set, the other flags clear: the initial state has no successor
\* under the letter 0 and the transition is absent
W28_EmptyUnionAbsent ==
    /\ pc = "Determinise"
    /\ flags = [NoFlags EXCEPT !.noempty = TRUE]
    /\ a1.i # -1
    /\ d.n = 2
    /\ d.e[0] = 0
    /\ d.e[1] = 1
    /\ a1.e[a1.i].f[0] = -1
    /\ a1.e[a1.i].f[1] # -1
    /\ r.e[0].f[0] = -1
    /\ r.e[0].f[1] # -1

InitHop == a1 \in Automata /\ OneAutomaton /\ Idle

\* allocation and initialisation, up to "nL = 1".  With a1.n = 0 the stores
\* to class_indices[1] and visited_class[1] fall outside the one-element
\* arrays: the call goes on as if they were larger, or the process dies.
MinimiseBegin ==
    /\ pc = "start"
    /\ \/ ret' = [m |-> HopcroftInit(a1), C |-> 0] /\ pc' = "while"
       \/ a1.n = 0 /\ ret' = ret /\ pc' = "abort"
    /\ UNCHANGED <<a1, a2, d, flags, r, post, reg, arg>>

\* "nL--; C = L[nL];"
MinimisePop ==
    /\ pc = "while"
    /\ Len(ret.m.L) > 0
    /\ ret' = [m |-> [ret.m EXCEPT !.L = SubSeq(@, 1, Len(@) - 1)],
               C |-> ret.m.L[Len(ret.m.L)]]
    /\ arg' = 0
    /\ pc' = "for"
    /\ UNCHANGED <<a1, a2, d, flags, r, post, reg>>

\* "split(C, j, verb);"
MinimiseSplit ==
    /\ pc = "for"
    /\ arg < a1.na
    /\ ret' = [ret EXCEPT !.m = split(ret.m, transitioni(a1), ret.C, arg)]
    /\ arg' = arg + 1
    /\ UNCHANGED <<a1, a2, d, flags, r, post, reg, pc>>

\* the loop on the letters ends
MinimiseNext ==
    /\ pc = "for"
    /\ arg >= a1.na
    /\ pc' = "while"
    /\ UNCHANGED <<a1, a2, d, flags, r, ret, post, reg, arg>>

\* L is empty: the quotient is built and the sink removed
MinimiseBuild ==
    /\ pc = "while"
    /\ Len(ret.m.L) = 0
    /\ r' = MinimiseFrom(a1, ret.m)
    /\ pc' = "Minimise"
    /\ UNCHANGED <<a1, a2, d, flags, ret, post, reg, arg>>

NextHop == MinimiseBegin \/ MinimisePop \/ MinimiseSplit \/ MinimiseNext \/ MinimiseBuild

SpecHop == InitHop /\ [][NextHop]_vars

\* the stepwise run returns what Minimise returns
Hop_SameResult == pc = "Minimise" => r = Minimise(a1)

InMinimise == pc \in {"while", "for", "Minimise"}

\* positions of the class c
ClassRange(m, c) == m.class_indices[c][0] .. m.class_indices[c][1] - 1

\* partition and partitioni are mutually inverse permutations of 0..n
InversePermutations(m, n) ==
    /\ DOMAIN m.partition = 0 .. n
    /\ DOMAIN m.partitioni = 0 .. n
    /\ \A s \in 0 .. n : m.partition[s] \in 0 .. n /\ m.partitioni[m.partition[s]] = s
    /\ \A q \in 0 .. n : m.partitioni[q] \in 0 .. n /\ m.partition[m.partitioni[q]] = q

\* the ranges of the classes 0..nclass-1 are disjoint and cover 0..n
RangesTile(m, n) ==
    /\ \A c \in 0 .. m.nclass - 1 : ClassRange(m, c) \subseteq 0 .. n
    /\ \A q \in 0 .. n : Cardinality({c \in 0 .. m.nclass - 1 : q \in ClassRange(m, c)}) = 1

\* class[s] = c exactly for the states stored at the positions of range c
ClassMatchesRange(m, n) ==
    \A s \in 0 .. n : \A c \in 0 .. m.nclass - 1 :
        m.class[s] = c <=> m.partition[s] \in ClassRange(m, c)

PartitionConsistent(m, n) ==
    /\ InversePermutations(m, n)
    /\ RangesTile(m, n)
    /\ ClassMatchesRange(m, n)
    /\ \A c \in DOMAIN m.pt_visited_class : m.pt_visited_class[c] = 0

\* C25: throughout Minimise, before and after every split call, partition
\* and partitioni are mutually inverse permutations of 0..n, the class
\* ranges tile 0..n, class[] agrees with the ranges, pt_visited_class is
\* zero everywhere, and nclass is at most n+1, the size of the class arrays.
C25_PartitionInvariant ==
    InMinimise => (PartitionConsistent(ret.m, a1.n) /\ ret.m.nclass <= a1.n + 1)

\* the same for every automaton with at least one state
Partition_InvariantNonEmpty ==
    (InMinimise /\ a1.n >= 1) => (PartitionConsistent(ret.m, a1.n) /\ ret.m.nclass <= a1.n + 1)

\* the permutation, the ranges and the class array alone, for every input
Partition_Consistent == InMinimise => PartitionConsistent(ret.m, a1.n)

\* ---- the partition when the worklist is empty ----------------------------
WorklistEmpty == (pc = "while" /\ Len(ret.m.L) = 0) \/ pc = "Minimise"

\* finality of the state s of a, the sink a.n included
FinalOrSink(a, s) == s < a.n /\ Truthy(a.e[s].final)

\* successor of s by x, an absent transition counting as the sink a.n
SuccOrSink(a, s, x) ==
    IF s >= a.n THEN a.n
    ELSE IF a.e[s].f[x] = -1 THEN a.n ELSE a.e[s].f[x]

\* two states of one class have the same finality and, for every letter,
\* successors in one class
Stable(a, m) ==
    \A s, t \in 0 .. a.n :
        m.class[s] = m.class[t] =>
            /\ FinalOrSink(a, s) <=> FinalOrSink(a, t)
            /\ \A x \in 0 .. a.na - 1 :
                   m.class[SuccOrSink(a, s, x)] = m.class[SuccOrSink(a, t, x)]

\* the state the quotient loop builds from the member e of a class
QuotientState(a, m, e) ==
    IF e >= a.n
    THEN [f |-> [x \in 0 .. a.na - 1 |-> -1], final |-> 0]
    ELSE [f |-> [x \in 0 .. a.na - 1 |->
                   IF a.e[e].f[x] # -1 THEN m.class[a.e[e].f[x]] ELSE -1],
          final |-> a.e[e].final]

\* the target v of a built state, ABSENT read as the class of the sink
AbsentAsSink(a, m, v) == IF v = -1 THEN m.class[a.n] ELSE v

Partition_Stable == WorklistEmpty => Stable(a1, ret.m)

\* the quotient is built from the first member of each range
Quotient_FromFirstMember ==
    WorklistEmpty =>
        \A c \in 0 .. ret.m.nclass - 1 :
            Quotient(a1, ret.m).e[c]
                = QuotientState(a1, ret.m, ret.m.partitioni[ret.m.class_indices[c][0]])

SinkAlone(a, m) == {s \in 0 .. a.n : m.class[s] = m.class[a.n]} = {a.n}

\* the class the state k of the result stands for, and the index in the
\* result of the class c, when the state of the class sc was removed
ClassOfState(sc, k) == IF k >= sc THEN k + 1 ELSE k

Reindexed(sc, c) == IF c > sc THEN c - 1 ELSE c

\* the member of the class c the quotient loop reads
Representative(m, c) == m.partitioni[m.class_indices[c][0]]

\* the member e has no transition by x (the sink has none)
RepAbsent(a, e, x) == e >= a.n \/ a.e[e].f[x] = -1

\* res is the quotient q without the state of the class sc of the sink
SinkRemoved(a, m, q, sc, res) ==
    /\ res.n = m.nclass - 1
    /\ \A c \in 0 .. q.n - 1 : \A x \in 0 .. a.na - 1 : q.e[c].f[x] # sc
    /\ \A k \in 0 .. res.n - 1 : \A x \in 0 .. a.na - 1 :
           LET e == Representative(m, ClassOfState(sc, k))
           IN /\ res.e[k].f[x] = -1 <=> RepAbsent(a, e, x)
              /\ ~RepAbsent(a, e, x) => res.e[k].f[x] = Reindexed(sc, m.class[a.e[e].f[x]])
    /\ res.i = IF a.i = -1 THEN -1 ELSE Reindexed(sc, m.class[a.i])

SinkRemoval(a, m, q, sc, res) ==
    IF SinkAlone(a, m)
    THEN SinkRemoved(a, m, q, sc, res)
    ELSE res.n = m.nclass /\ res = q

\* C27: Minimise removes the state of the sink from its result exactly when
\* the class of the sink holds the sink alone; then no transition of the
\* quotient pointed to the removed state, the result has ABSENT exactly where
\* the representative of the class has, and the initial state of the result
\* is the re-indexed class of the initial state of the input (none if the
\* input had none).
C27_SinkRemovedWhenAlone ==
    pc = "Minimise" =>
        SinkRemoval(a1, ret.m, Quotient(a1, ret.m), ret.m.class[a1.n], r)

\* the sink was alone in a class created by a split, and the class of the
\* initial state was re-indexed
W27_InitialReindexed ==
    /\ pc = "Minimise"
    /\ a1.n = 3
    /\ a1.i # -1
    /\ SinkAlone(a1, ret.m)
    /\ ret.m.class[a1.i] > ret.m.class[a1.n]
    /\ r.i = ret.m.class[a1.i] - 1
    /\ \E k \in 0 .. r.n - 1 : \E x \in 0 .. a1.na - 1 : r.e[k].f[x] = -1

\* the sink shares its class with a state, and the result keeps that state
W27_SinkKept ==
    /\ pc = "Minimise"
    /\ a1.n = 3
    /\ ~SinkAlone(a1, ret.m)
    /\ r.n = ret.m.nclass
    /\ ret.m.nclass >= 3

====
